---- MODULE Spec2Model ----
(***************************************************************************)
(* Model of task_01_tree_copy_sort.py, the recursive copy-and-sort tool:   *)
(* main() validates SRC, creates DST, walks SRC with                       *)
(* collect_files_recursive, copies every collected file to                 *)
(* DST/<bucket>/<name>, prints the recorded warnings and renders DST with  *)
(* display_tree.                                                           *)
(*                                                                         *)
(* A file name is a tuple of one-character strings and a path is a tuple   *)
(* of names (its resolved, absolute form).  The filesystem is a set of     *)
(* directories and a set of regular files, each file with the identity of  *)
(* its content.  It holds directories and regular files only, no symbolic  *)
(* links and no special files, so resolve() is the identity on paths.      *)
(* The errors of the operating system (a directory that cannot be listed,  *)
(* an entry whose type cannot be read, a file that cannot be copied, a     *)
(* directory that cannot be created) are choices of the environment.       *)
(* iterdir() yields entries in an order the system chooses; the model      *)
(* takes directories first, then names in code-point order.  The colours   *)
(* of the output and the pacing delay of the copy loop are left out: they  *)
(* change no state.  pathlib is that of Python up to 3.13 (the suffix of   *)
(* "a." is empty).                                                         *)
(***************************************************************************)
EXTENDS Naturals, Sequences, FiniteSets

VARIABLES
    fsDirs,         \* the directories that exist (set of paths)
    fsFiles,        \* the regular files that exist: set of [p: path, d: content]
    src,            \* main: src = Path(args.src).resolve()
    dst,            \* main: dst = Path(args.dst).resolve()
    pc,             \* position of main()
    skip_dir,       \* main: skip_dir (NoPath for None)
    stack,          \* collect_files_recursive: the active calls, innermost last
    callDir,        \* collect_files_recursive: the directory of the call being entered
    files_to_copy,  \* main: files_to_copy
    idx,            \* main: the copy loop's i (number of files attempted)
    ERRORS,         \* the module-level ERRORS list
    stdout,         \* everything printed, in order
    attempts,       \* history: one record per iteration of the copy loop
    listed,         \* history: directories whose iterdir() was called by the walker
    listFailed,     \* history: directories whose iterdir() raised in the walker
    typeFailed,     \* history: items whose is_dir()/is_file() raised in the walker
    faults,         \* number of errors the system has raised so far, over all runs
    fsStart,        \* history: the filesystem when this run of main() began
    run             \* number of the current invocation of the tool

vars == <<fsDirs, fsFiles, src, dst, pc, skip_dir, stack, callDir, files_to_copy,
          idx, ERRORS, stdout, attempts, listed, listFailed, typeFailed, fsStart, run, faults>>

(***************************************************************************)
(* Bounds of the model.                                                    *)
(***************************************************************************)
MaxFiles == 2       \* regular files in the initial tree
MaxFaults == 2      \* recoverable errors the environment raises in one run
MaxRuns == 2        \* invocations of the tool on the same arguments
MaxNameLen == 3     \* length of the names given to the path classifier

(***************************************************************************)
(* Names and paths.                                                        *)
(***************************************************************************)
NoPath == <<>>

Last(s) == s[Len(s)]

Parent(p) == SubSeq(p, 1, Len(p) - 1)

IsPrefix(p, q) == Len(p) <= Len(q) /\ SubSeq(q, 1, Len(p)) = p

Prefixes(p) == {SubSeq(p, 1, k) : k \in 1..Len(p)}

SetToSeqs(S, n) == UNION {[1..k -> S] : k \in 1..n}

(***************************************************************************)
(* Characters: str.lower() and the code-point order that sorted() uses.    *)
(***************************************************************************)
CharOrder == <<".", "J", "R", "_", "a", "d", "e", "g", "i", "j", "n", "o", "r", "s", "t", "x">>

Ord(c) == CHOOSE k \in 1..Len(CharOrder) : CharOrder[k] = c

LowerChar(c) == CASE c = "J" -> "j"
                  [] c = "R" -> "r"
                  [] OTHER -> c

Lower(s) == [k \in 1..Len(s) |-> LowerChar(s[k])]

\* str.rfind(c) + 1: the last position of c in s, 0 when absent
RFind(s, c) ==
    LET hits == {k \in 1..Len(s) : s[k] = c}
    IN  IF hits = {} THEN 0 ELSE CHOOSE k \in hits : \A h \in hits : h <= k

\* PurePath.suffix of a final component
Suffix(name) ==
    LET k == RFind(name, ".")
    IN  IF 1 < k /\ k < Len(name) THEN SubSeq(name, k, Len(name)) ELSE <<>>

\* str.lstrip(".")
RECURSIVE LStripDot(_)
LStripDot(s) == IF s # <<>> /\ s[1] = "." THEN LStripDot(Tail(s)) ELSE s

NoExtension == <<"n", "o", "_", "e", "x", "t", "e", "n", "s", "i", "o", "n">>

\* the classifier without the call of lower()
get_extension_subdir_NoLower(path) ==
    LET e == Suffix(Last(path))
    IN  IF e # <<>> THEN LStripDot(e) ELSE NoExtension

get_extension_subdir(path) ==
    LET e == Lower(Suffix(Last(path)))
    IN  IF e # <<>> THEN LStripDot(e) ELSE NoExtension

\* main, the loop body's three assignments: ext_dir, target_dir, target_file
TargetDir(d, file_path) == Append(d, get_extension_subdir(file_path))

TargetFile(d, file_path) == Append(TargetDir(d, file_path), Last(file_path))

\* is_inside(child, parent): child.relative_to(parent) does not raise
is_inside(child, parent) == IsPrefix(parent, child)

(***************************************************************************)
(* The filesystem.                                                         *)
(***************************************************************************)
FilePaths(F) == {f.p : f \in F}

IsDir(D, p) == p \in D

IsFile(F, p) == p \in FilePaths(F)

Exists(D, F, p) == IsDir(D, p) \/ IsFile(F, p)

\* Path.iterdir(): the direct children of directory p
Entries(D, F, p) == {q \in D \cup FilePaths(F) : Len(q) = Len(p) + 1 /\ Parent(q) = p}

ContentOf(F, p) == (CHOOSE f \in F : f.p = p).d

\* Path.mkdir(parents=True, exist_ok=True) can succeed: no component is a regular file
MkdirPossible(F, p) == \A q \in Prefixes(p) : ~IsFile(F, q)

\* a mkdir that creates nothing
MkdirP_Nothing(D, p) == D

\* the directories after a successful mkdir(parents=True, exist_ok=True)
MkdirP(D, p) == D \cup Prefixes(p)

\* a copy that writes nothing
CopyFile_NoWrite(F, a, b) == F

\* shutil.copy2(a, b) succeeded: b holds a's content, replacing what b held
CopyFile(F, a, b) == {f \in F : f.p # b} \cup {[p |-> b, d |-> ContentOf(F, a)]}

(***************************************************************************)
(* ERRORS and standard output.                                             *)
(***************************************************************************)
\* the text of a recorded warning: which message, about which path
Msg(text, path) == [text |-> text, path |-> path]

\* a handler that swallows the error without recording it
warn_Dropped(errs, msg) == errs

\* warn(msg): ERRORS.append(msg)
warn(errs, msg) == Append(errs, msg)

\* one thing printed: t is its sort, x a detail, p the path it shows, n a number
Ev(t, x, p, n) == [t |-> t, x |-> x, p |-> p, n |-> n]

\* print_progress_bar(i / total): the bar redrawn for i files out of total
print_progress_bar(i) == Ev("progress", "", NoPath, i)

\* the warnings printed last first
PrintWarnings_Reversed(errs) ==
    IF errs = <<>> THEN <<>>
    ELSE [k \in 1..Len(errs) |->
             Ev("warn", errs[Len(errs) + 1 - k].text, errs[Len(errs) + 1 - k].path, 0)]
         \o <<Ev("newline", "", NoPath, 0)>>

\* the loop that prints ERRORS, followed by an empty line, when ERRORS is not empty
PrintWarnings(errs) ==
    IF errs = <<>> THEN <<>>
    ELSE [k \in 1..Len(errs) |-> Ev("warn", errs[k].text, errs[k].path, 0)]
         \o <<Ev("newline", "", NoPath, 0)>>

\* the message collect_files_recursive records for an exception
WalkMsg(exc, path) ==
    IF exc = "PermissionError" THEN Msg("no access", path) ELSE Msg("read error", path)

\* the message the copy loop records for an exception
CopyMsg(exc, path) ==
    CASE exc = "PermissionError" -> Msg("no access", path)
      [] exc = "FileNotFoundError" -> Msg("file not found", path)
      [] OTHER -> Msg("copy error", path)

(***************************************************************************)
(* display_tree.                                                           *)
(***************************************************************************)
\* a < b for str
RECURSIVE StrLess(_, _)
StrLess(a, b) ==
    IF b = <<>> THEN FALSE
    ELSE IF a = <<>> THEN TRUE
    ELSE IF a[1] # b[1] THEN Ord(a[1]) < Ord(b[1])
    ELSE StrLess(Tail(a), Tail(b))

\* the sort key (x.is_file(), x.name): directories first, then by name
KeyLess(F, a, b) ==
    IF IsFile(F, a) # IsFile(F, b) THEN ~IsFile(F, a)
    ELSE StrLess(Last(a), Last(b))

\* sorted(path.iterdir(), key=...)
RECURSIVE SortedEntries(_, _)
SortedEntries(F, S) ==
    IF S = {} THEN <<>>
    ELSE LET m == CHOOSE a \in S : \A b \in S \ {a} : KeyLess(F, a, b)
         IN  <<m>> \o SortedEntries(F, S \ {m})

\* display_tree(path, indent, prefix) where listing the directories of bad raises:
\* the lines printed and the warnings recorded, in order
RECURSIVE display_tree(_, _, _, _, _, _)
RECURSIVE DisplayEntries(_, _, _, _, _, _)
display_tree(D, F, bad, path, indent, prefix) ==
    IF IsDir(D, path)
    THEN LET head == <<Ev("dir", prefix, path, indent)>>
             subindent == indent + (IF prefix # "" THEN 1 ELSE 0)
         IN  IF path \in bad
             THEN [lines |-> head \o <<Ev("inaccessible", "last", path, subindent)>>,
                   warns |-> <<Msg("no access", path)>>]
             ELSE LET sub == DisplayEntries(D, F, bad, SortedEntries(F, Entries(D, F, path)),
                                            1, subindent)
                  IN  [lines |-> head \o sub.lines, warns |-> sub.warns]
    ELSE [lines |-> <<Ev("file", prefix, path, indent)>>, warns |-> <<>>]

DisplayEntries(D, F, bad, entries, i, subindent) ==
    IF i > Len(entries) THEN [lines |-> <<>>, warns |-> <<>>]
    ELSE LET p == IF i = Len(entries) THEN "last" ELSE "middle"
             one == display_tree(D, F, bad, entries[i], subindent, p)
             rest == DisplayEntries(D, F, bad, entries, i + 1, subindent)
         IN  [lines |-> one.lines \o rest.lines, warns |-> one.warns \o rest.warns]

\* the directories display_tree(path) may try to list
DirsUnder(D, path) == {q \in D : IsPrefix(path, q)}

(***************************************************************************)
(* The trees and arguments the tool is started on.                         *)
(***************************************************************************)
SrcRoot == <<<<"s">>>>
DirD == <<<<"s">>, <<"d">>>>
DirE == <<<<"s">>, <<"d">>, <<"e">>>>
DirG == <<<<"s">>, <<"g">>>>
DirO == <<<<"o">>>>

FileNames == {<<"a", ".", "J">>, <<"R">>}

DstChoices == {DirO, SrcRoot, DirD, DirE}

TreeShapes == {S \in SUBSET {DirD, DirE, DirG} : DirE \in S => DirD \in S}

FreshFiles(P) == {[p |-> q, d |-> q] : q \in P}

\* the places a regular file of the source tree can be, given its directories
FilePlaces(S) == {Append(dir, name) : dir \in ({SrcRoot} \cup S) \ {DirE}, name \in FileNames}

Init ==
    /\ src = SrcRoot
    /\ dst \in DstChoices
    /\ \E srcKind \in {"dir", "missing", "file"} :
         \E S \in TreeShapes :
           \E X \in SUBSET FilePlaces(S) :
             \E oKind \in {"missing", "dir", "file"} :
               /\ Cardinality(X) <= MaxFiles
               /\ srcKind # "dir" => S = {} /\ X = {}
               /\ dst # DirO => oKind = "missing"
               /\ fsDirs = (IF srcKind = "dir" THEN {SrcRoot} \cup S ELSE {})
                             \cup (IF oKind = "dir" THEN {DirO} ELSE {})
               /\ fsFiles = FreshFiles(X)
                             \cup (IF srcKind = "file" THEN FreshFiles({SrcRoot}) ELSE {})
                             \cup (IF oKind = "file" THEN FreshFiles({DirO}) ELSE {})
    /\ pc = "validate"
    /\ skip_dir = NoPath
    /\ stack = <<>>
    /\ callDir = NoPath
    /\ files_to_copy = <<>>
    /\ idx = 0
    /\ ERRORS = <<>>
    /\ stdout = <<>>
    /\ attempts = <<>>
    /\ listed = {}
    /\ listFailed = {}
    /\ typeFailed = {}
    /\ fsStart = [dirs |-> fsDirs, files |-> fsFiles]
    /\ run = 1
    /\ faults = 0

(***************************************************************************)
(* main().                                                                 *)
(***************************************************************************)
\* the check of SRC without its return: the error is printed and main() goes on
Validate_NoReturn ==
    /\ pc = "validate"
    /\ IF ~Exists(fsDirs, fsFiles, src) \/ ~IsDir(fsDirs, src)
       THEN stdout' = Append(stdout, Ev("fatal", "src", src, 0))
       ELSE UNCHANGED stdout
    /\ skip_dir' = (IF dst = src \/ is_inside(dst, src) THEN dst ELSE NoPath)
    /\ pc' = "mkdst"
    /\ UNCHANGED <<fsDirs, fsFiles, src, dst, stack, callDir, files_to_copy, idx, ERRORS,
                   attempts, listed, listFailed, typeFailed, fsStart, run, faults>>

\* lines 131-138: SRC is checked, skip_dir is computed
Validate ==
    /\ pc = "validate"
    /\ IF ~Exists(fsDirs, fsFiles, src) \/ ~IsDir(fsDirs, src)
       THEN /\ stdout' = Append(stdout, Ev("fatal", "src", src, 0))
            /\ pc' = "done"
            /\ UNCHANGED skip_dir
       ELSE /\ skip_dir' = (IF dst = src \/ is_inside(dst, src) THEN dst ELSE NoPath)
            /\ pc' = "mkdst"
            /\ UNCHANGED stdout
    /\ UNCHANGED <<fsDirs, fsFiles, src, dst, stack, callDir, files_to_copy, idx, ERRORS,
                   attempts, listed, listFailed, typeFailed, fsStart, run, faults>>

\* lines 140-141, 147-148: dst.mkdir(parents=True, exist_ok=True) succeeds
MkDstOk ==
    /\ pc = "mkdst"
    /\ MkdirPossible(fsFiles, dst)
    /\ fsDirs' = MkdirP(fsDirs, dst)
    /\ callDir' = src
    /\ pc' = "collect_call"
    /\ UNCHANGED <<fsFiles, src, dst, skip_dir, stack, files_to_copy, idx, ERRORS, stdout,
                   attempts, listed, listFailed, typeFailed, fsStart, run, faults>>

\* lines 142-144: dst.mkdir raises OSError (a component is a regular file, or the
\* system refuses to create a directory that does not exist yet)
MkDstFail ==
    /\ pc = "mkdst"
    /\ ~MkdirPossible(fsFiles, dst) \/ ~IsDir(fsDirs, dst)
    /\ stdout' = Append(stdout, Ev("fatal", "dst", dst, 0))
    /\ pc' = "done"
    /\ UNCHANGED <<fsDirs, fsFiles, src, dst, skip_dir, stack, callDir, files_to_copy, idx,
                   ERRORS, attempts, listed, listFailed, typeFailed, fsStart, run, faults>>

(***************************************************************************)
(* collect_files_recursive(src, out, skip_dir), one step per iterdir() and *)
(* per item of the loop.  A frame of stack is one active call: the         *)
(* directory and the entries the loop has not reached yet (iterdir()       *)
(* yields them in arbitrary order).                                        *)
(***************************************************************************)
WalkExceptions == {"PermissionError", "OSError"}

\* lines 75-76: entries = list(src.iterdir())
CollectList ==
    /\ pc = "collect_call"
    /\ listed' = listed \cup {callDir}
    /\ stack' = Append(stack, [dir |-> callDir, todo |-> Entries(fsDirs, fsFiles, callDir)])
    /\ pc' = "collect_loop"
    /\ UNCHANGED <<fsDirs, fsFiles, src, dst, skip_dir, callDir, files_to_copy, idx, ERRORS,
                   stdout, attempts, listFailed, typeFailed, fsStart, run, faults>>

\* a listing failure that abandons the whole walk instead of one directory
CollectListFail_AbortsWalk ==
    /\ pc = "collect_call"
    /\ faults < MaxFaults
    /\ \E exc \in WalkExceptions : ERRORS' = warn(ERRORS, WalkMsg(exc, callDir))
    /\ listed' = listed \cup {callDir}
    /\ listFailed' = listFailed \cup {callDir}
    /\ stack' = <<>>
    /\ pc' = "collect_loop"
    /\ faults' = faults + 1
    /\ UNCHANGED <<fsDirs, fsFiles, src, dst, skip_dir, callDir, files_to_copy, idx,
                   stdout, attempts, typeFailed, fsStart, run>>

\* lines 77-82: iterdir() raises; the call warns and returns
CollectListFail ==
    /\ pc = "collect_call"
    /\ faults < MaxFaults
    /\ \E exc \in WalkExceptions : ERRORS' = warn(ERRORS, WalkMsg(exc, callDir))
    /\ listed' = listed \cup {callDir}
    /\ listFailed' = listFailed \cup {callDir}
    /\ pc' = "collect_loop"
    /\ faults' = faults + 1
    /\ UNCHANGED <<fsDirs, fsFiles, src, dst, skip_dir, stack, callDir, files_to_copy, idx,
                   stdout, attempts, typeFailed, fsStart, run>>

\* a walker that skips nothing
Skipped_Never(item, skip) == FALSE

\* line 85: the test that makes the loop skip an item
Skipped(item, skip) == skip # NoPath /\ item = skip

\* the innermost active call
Top == stack[Len(stack)]

\* the entry the loop of line 84 reaches next
NextItems(T) == IF T = {} THEN {} ELSE {CHOOSE x \in T : \A y \in T \ {x} : KeyLess(fsFiles, x, y)}

\* the innermost call's loop moves on
SetTodo(st, todo) == [st EXCEPT ![Len(st)].todo = todo]

\* lines 84-86: the next item is skip_dir
CollectSkip ==
    /\ pc = "collect_loop" /\ stack # <<>>
    /\ \E item \in NextItems(Top.todo) :
         /\ Skipped(item, skip_dir)
         /\ stack' = SetTodo(stack, Top.todo \ {item})
    /\ UNCHANGED <<fsDirs, fsFiles, src, dst, pc, skip_dir, callDir, files_to_copy, idx,
                   ERRORS, stdout, attempts, listed, listFailed, typeFailed, fsStart, run, faults>>

\* lines 89-90: the next item is a directory: recurse
CollectDir ==
    /\ pc = "collect_loop" /\ stack # <<>>
    /\ \E item \in NextItems(Top.todo) :
         /\ ~Skipped(item, skip_dir)
         /\ IsDir(fsDirs, item)
         /\ stack' = SetTodo(stack, Top.todo \ {item})
         /\ callDir' = item
         /\ pc' = "collect_call"
    /\ UNCHANGED <<fsDirs, fsFiles, src, dst, skip_dir, files_to_copy, idx, ERRORS, stdout,
                   attempts, listed, listFailed, typeFailed, fsStart, run, faults>>

\* lines 91-92: the next item is a regular file: out.append(item)
CollectFile ==
    /\ pc = "collect_loop" /\ stack # <<>>
    /\ \E item \in NextItems(Top.todo) :
         /\ ~Skipped(item, skip_dir)
         /\ ~IsDir(fsDirs, item) /\ IsFile(fsFiles, item)
         /\ stack' = SetTodo(stack, Top.todo \ {item})
         /\ files_to_copy' = Append(files_to_copy, item)
    /\ UNCHANGED <<fsDirs, fsFiles, src, dst, pc, skip_dir, callDir, idx, ERRORS, stdout,
                   attempts, listed, listFailed, typeFailed, fsStart, run, faults>>

\* lines 93-96: is_dir() or is_file() raises for the next item
CollectTypeFail ==
    /\ pc = "collect_loop" /\ stack # <<>>
    /\ faults < MaxFaults
    /\ \E item \in NextItems(Top.todo), exc \in WalkExceptions :
         /\ ~Skipped(item, skip_dir)
         /\ stack' = SetTodo(stack, Top.todo \ {item})
         /\ ERRORS' = warn(ERRORS, WalkMsg(exc, item))
         /\ typeFailed' = typeFailed \cup {item}
    /\ faults' = faults + 1
    /\ UNCHANGED <<fsDirs, fsFiles, src, dst, pc, skip_dir, callDir, files_to_copy, idx,
                   stdout, attempts, listed, listFailed, fsStart, run>>

\* the loop of a call is exhausted: the call returns to its caller
CollectReturn ==
    /\ pc = "collect_loop" /\ stack # <<>>
    /\ Top.todo = {}
    /\ stack' = SubSeq(stack, 1, Len(stack) - 1)
    /\ UNCHANGED <<fsDirs, fsFiles, src, dst, pc, skip_dir, callDir, files_to_copy, idx,
                   ERRORS, stdout, attempts, listed, listFailed, typeFailed, fsStart, run, faults>>

\* lines 150-153: the walk is over and found nothing: display_tree(dst); return
EmptyTree ==
    /\ pc = "collect_loop" /\ stack = <<>>
    /\ Len(files_to_copy) = 0
    /\ \E bad \in SUBSET DirsUnder(fsDirs, dst) :
         LET t == display_tree(fsDirs, fsFiles, bad, dst, 0, "")
         IN  /\ Len(t.warns) = Cardinality(bad)
             /\ faults + Cardinality(bad) <= MaxFaults
             /\ faults' = faults + Cardinality(bad)
             /\ stdout' = stdout \o t.lines
             /\ ERRORS' = ERRORS \o t.warns
    /\ pc' = "done"
    /\ UNCHANGED <<fsDirs, fsFiles, src, dst, skip_dir, stack, callDir, files_to_copy, idx,
                   attempts, listed, listFailed, typeFailed, fsStart, run>>

\* lines 150-164: the walk is over and found files: the copy loop starts
StartCopy ==
    /\ pc = "collect_loop" /\ stack = <<>>
    /\ Len(files_to_copy) > 0
    /\ idx' = 0
    /\ pc' = "copy"
    /\ UNCHANGED <<fsDirs, fsFiles, src, dst, skip_dir, stack, callDir, files_to_copy,
                   ERRORS, stdout, attempts, listed, listFailed, typeFailed, fsStart, run, faults>>

NoFault == [at |-> "none", exc |-> "none"]

Fault(at, exc) == [at |-> at, exc |-> exc]

\* the filesystem itself makes lines 171-172 raise for this file
Forced(D, F, file_path) ==
    \/ ~MkdirPossible(F, TargetDir(dst, file_path))
    \/ file_path = TargetFile(dst, file_path)
    \/ IsDir(D, TargetFile(dst, file_path))

\* what lines 171-172 can do for one file: target_dir.mkdir(...) then shutil.copy2(...).
\* mkdir raises FileExistsError or NotADirectoryError when a component is a regular
\* file; copy2 raises SameFileError when source and target are one file and
\* IsADirectoryError when the target is a directory (all of them OSError).  The other
\* faults come from the system, when may_fail allows one more.
CopyOutcomes(D, F, file_path, may_fail) ==
    LET target_dir == TargetDir(dst, file_path)
        target_file == TargetFile(dst, file_path)
    IN  IF ~MkdirPossible(F, target_dir) THEN {Fault("mkdir", "OSError")}
        ELSE IF file_path = target_file \/ IsDir(D, target_file)
             THEN {Fault("copy", "OSError")}
        ELSE {NoFault}
             \cup (IF may_fail
                   THEN {Fault("copy", e) : e \in {"PermissionError", "FileNotFoundError", "OSError"}}
                   ELSE {})
             \cup (IF may_fail /\ ~IsDir(D, target_dir)
                   THEN {Fault("mkdir", e) : e \in {"PermissionError", "OSError"}}
                   ELSE {})

\* lines 164-181: one iteration of the copy loop
CopyOne ==
    /\ pc = "copy"
    /\ idx < Len(files_to_copy)
    /\ LET i == idx + 1
           file_path == files_to_copy[i]
           target_dir == TargetDir(dst, file_path)
           target_file == TargetFile(dst, file_path)
       IN  \E o \in CopyOutcomes(fsDirs, fsFiles, file_path, faults < MaxFaults) :
             /\ fsDirs' = (IF o.at = "mkdir" THEN fsDirs ELSE MkdirP(fsDirs, target_dir))
             /\ fsFiles' = (IF o = NoFault THEN CopyFile(fsFiles, file_path, target_file)
                            ELSE IF o.exc = "FileNotFoundError"
                                 THEN {f \in fsFiles : f.p # file_path}
                            ELSE fsFiles)
             /\ ERRORS' = (IF o = NoFault THEN ERRORS
                           ELSE warn(ERRORS, CopyMsg(o.exc, file_path)))
             /\ attempts' = Append(attempts, [file |-> file_path, target |-> target_file,
                                              ok |-> o = NoFault])
             /\ stdout' = Append(stdout, print_progress_bar(i))
             /\ idx' = i
             /\ faults' = (IF o # NoFault /\ ~Forced(fsDirs, fsFiles, file_path)
                           THEN faults + 1 ELSE faults)
    /\ UNCHANGED <<src, dst, pc, skip_dir, stack, callDir, files_to_copy, listed,
                   listFailed, typeFailed, fsStart, run>>

\* lines 183-189: print(), then the warnings
Flush ==
    /\ pc = "copy"
    /\ idx = Len(files_to_copy)
    /\ stdout' = Append(stdout, Ev("newline", "", NoPath, 0)) \o PrintWarnings(ERRORS)
    /\ pc' = "render"
    /\ UNCHANGED <<fsDirs, fsFiles, src, dst, skip_dir, stack, callDir, files_to_copy, idx,
                   ERRORS, attempts, listed, listFailed, typeFailed, fsStart, run, faults>>

\* lines 191-193: the heading and display_tree(dst)
Render ==
    /\ pc = "render"
    /\ \E bad \in SUBSET DirsUnder(fsDirs, dst) :
         LET t == display_tree(fsDirs, fsFiles, bad, dst, 0, "")
         IN  /\ Len(t.warns) = Cardinality(bad)
             /\ faults + Cardinality(bad) <= MaxFaults
             /\ faults' = faults + Cardinality(bad)
             /\ stdout' = Append(stdout, Ev("info", "", NoPath, 0)) \o t.lines
             /\ ERRORS' = ERRORS \o t.warns
    /\ pc' = "done"
    /\ UNCHANGED <<fsDirs, fsFiles, src, dst, skip_dir, stack, callDir, files_to_copy, idx,
                   attempts, listed, listFailed, typeFailed, fsStart, run>>

\* the tool is started again, with the same arguments, on the tree the last run left
Rerun ==
    /\ pc = "done"
    /\ run < MaxRuns
    /\ run' = run + 1
    /\ pc' = "validate"
    /\ skip_dir' = NoPath
    /\ stack' = <<>>
    /\ callDir' = NoPath
    /\ files_to_copy' = <<>>
    /\ idx' = 0
    /\ ERRORS' = <<>>
    /\ stdout' = <<>>
    /\ attempts' = <<>>
    /\ listed' = {}
    /\ listFailed' = {}
    /\ typeFailed' = {}
    /\ fsStart' = [dirs |-> fsDirs, files |-> fsFiles]
    /\ UNCHANGED <<fsDirs, fsFiles, src, dst, faults>>

Next ==
    \/ Validate
    \/ MkDstOk
    \/ MkDstFail
    \/ CollectList
    \/ CollectListFail
    \/ CollectSkip
    \/ CollectDir
    \/ CollectFile
    \/ CollectTypeFail
    \/ CollectReturn
    \/ EmptyTree
    \/ StartCopy
    \/ CopyOne
    \/ Flush
    \/ Render
    \/ Rerun

Spec == Init /\ [][Next]_vars

(***************************************************************************)
(* What a finished run shows.                                              *)
(***************************************************************************)
Printed(t) == {k \in 1..Len(stdout) : stdout[k].t = t}

Fatal == Printed("fatal") # {}

TreeLines == Printed("dir") \cup Printed("file") \cup Printed("inaccessible")

Finished == pc = "done" /\ ~Fatal

\* the regular files below p
FilesUnder(F, p) == {q \in FilePaths(F) : IsPrefix(p, q) /\ q # p}

OkAttempts == {k \in 1..Len(attempts) : attempts[k].ok}

FailedAttempts == {k \in 1..Len(attempts) : ~attempts[k].ok}

DstOutside == ~is_inside(dst, src)

\* N: the regular files of the source tree when the run began
SourceFiles == FilesUnder(fsStart.files, src)

(***************************************************************************)
(* C1 as stated: with DST outside the source tree, after main() the number *)
(* of files under DST is N minus the number of copy warnings.              *)
(***************************************************************************)
C1_CountIsNMinusWarnings ==
    (Finished /\ DstOutside) =>
        Cardinality(FilesUnder(fsFiles, dst))
            = Cardinality(SourceFiles) - Cardinality(FailedAttempts)

(***************************************************************************)
(* C1 amended: with DST outside the source tree and holding no file when   *)
(* the run begins, after main() the files under DST are exactly the        *)
(* targets DST/<bucket>/<name> of the successful copy attempts (files with *)
(* one target overwrite each other); their number is at most N minus the   *)
(* copy warnings, and equals it when every file of the tree was collected  *)
(* and no two collected files have the same target.                        *)
(***************************************************************************)
C1_FilesAreSuccessfulTargets ==
    (Finished /\ DstOutside /\ FilesUnder(fsStart.files, dst) = {}) =>
        LET under == FilesUnder(fsFiles, dst)
            n == Cardinality(SourceFiles)
            w == Cardinality(FailedAttempts)
            collected == {files_to_copy[k] : k \in 1..Len(files_to_copy)}
        IN  /\ under = {attempts[k].target : k \in OkAttempts}
            /\ \A t \in under : Len(t) = Len(dst) + 2
            /\ Cardinality(under) + w <= n
            /\ (/\ collected = SourceFiles
                /\ \A f, g \in collected : Last(f) = Last(g) => f = g)
               => Cardinality(under) = n - w

\* two files of one name were both copied, to one target
C1_Witness ==
    /\ Finished /\ DstOutside /\ FilesUnder(fsStart.files, dst) = {}
    /\ \E j, k \in OkAttempts : j # k /\ attempts[j].target = attempts[k].target
    /\ Cardinality(FilesUnder(fsFiles, dst)) = 1

(***************************************************************************)
(* The copy loop on arbitrary file names: main() after the walk of a tree  *)
(* that holds one file in SRC and one in SRC/d, each named by any string   *)
(* of at most MaxNameLen characters of ExtAlphabet, with DST outside SRC.  *)
(***************************************************************************)
ExtAlphabet == {"a", "J", "j", "."}

ExtNames == SetToSeqs(ExtAlphabet, MaxNameLen) \ {<<".">>, <<".", ".">>}

InitExt ==
    \E n1, n2 \in ExtNames :
        LET f1 == Append(DirD, n1)
            f2 == Append(SrcRoot, n2)
        IN  /\ src = SrcRoot
            /\ dst = DirO
            /\ fsDirs = {SrcRoot, DirD, DirO}
            /\ fsFiles = FreshFiles({f1, f2})
            /\ pc = "copy"
            /\ skip_dir = NoPath
            /\ stack = <<>>
            /\ callDir = DirD
            /\ files_to_copy = <<f1, f2>>
            /\ idx = 0
            /\ ERRORS = <<>>
            /\ stdout = <<>>
            /\ attempts = <<>>
            /\ listed = {SrcRoot, DirD}
            /\ listFailed = {}
            /\ typeFailed = {}
            /\ fsStart = [dirs |-> {SrcRoot, DirD}, files |-> FreshFiles({f1, f2})]
            /\ run = MaxRuns
            /\ faults = MaxFaults

NextExt ==
    \/ CopyOne
    \/ Flush
    \/ Render

SpecExt == InitExt /\ [][NextExt]_vars

\* the name has a last dot that is neither its first nor its last character
HasExt(name) ==
    \E k \in 2..(Len(name) - 1) :
        name[k] = "." /\ \A m \in (k + 1)..Len(name) : name[m] # "."

\* what follows that dot
ExtOf(name) ==
    LET k == CHOOSE k \in 2..(Len(name) - 1) :
                 name[k] = "." /\ \A m \in (k + 1)..Len(name) : name[m] # "."
    IN  SubSeq(name, k + 1, Len(name))

SameLetter(c, d) == c = d \/ {c, d} = {"J", "j"} \/ {c, d} = {"R", "r"}

SameUpToCase(s, t) == Len(s) = Len(t) /\ \A k \in 1..Len(s) : SameLetter(s[k], t[k])

NoUpper(s) == \A k \in 1..Len(s) : s[k] \notin {"J", "R"}

(***************************************************************************)
(* C2: every copy attempt targets DST/<bucket>/<name of the file>, where   *)
(* the bucket is the file's last extension in lower case, without the dot, *)
(* or "no_extension" when the name has no extension; so two files whose    *)
(* extensions differ only by letter case go to one bucket directory.       *)
(***************************************************************************)
C2_BucketIsLoweredExtension ==
    /\ \A k \in 1..Len(attempts) :
         LET a == attempts[k]
             name == Last(a.file)
         IN  /\ Len(a.target) = Len(dst) + 2
             /\ SubSeq(a.target, 1, Len(dst)) = dst
             /\ Last(a.target) = name
             /\ IF HasExt(name)
                THEN /\ NoUpper(a.target[Len(dst) + 1])
                     /\ SameUpToCase(a.target[Len(dst) + 1], ExtOf(name))
                ELSE a.target[Len(dst) + 1] = NoExtension
             /\ a.ok => IsFile(fsFiles, a.target) /\ IsDir(fsDirs, Parent(a.target))
    /\ \A j, k \in 1..Len(attempts) :
         LET m == Last(attempts[j].file)
             n == Last(attempts[k].file)
         IN  (HasExt(m) /\ HasExt(n) /\ SameUpToCase(ExtOf(m), ExtOf(n)))
                => Parent(attempts[j].target) = Parent(attempts[k].target)

\* two files whose extensions differ by case only were copied into one bucket
C2_Witness ==
    /\ pc = "done"
    /\ \E j, k \in OkAttempts :
         LET m == Last(attempts[j].file)
             n == Last(attempts[k].file)
         IN  /\ HasExt(m) /\ HasExt(n)
             /\ ExtOf(m) # ExtOf(n)
             /\ SameUpToCase(ExtOf(m), ExtOf(n))
             /\ Parent(attempts[j].target) = Parent(attempts[k].target)
             /\ attempts[j].target # attempts[k].target

(***************************************************************************)
(* C3: when DST is a proper subdirectory of SRC, on a first run and on a   *)
(* re-run over the copies of earlier runs, collect_files_recursive         *)
(* terminates, never lists DST or a directory under it, and no file under  *)
(* DST is collected or given to the copy loop.                             *)
(***************************************************************************)
DstNested == is_inside(dst, src) /\ dst # src

Walking == pc \in {"collect_call", "collect_loop"} /\ ~(pc = "collect_loop" /\ stack = <<>>)

NothingUnderDstTaken ==
    /\ \A k \in 1..Len(files_to_copy) : ~IsPrefix(dst, files_to_copy[k])
    /\ \A k \in 1..Len(attempts) : ~IsPrefix(dst, attempts[k].file)
    /\ \A d \in listed : ~IsPrefix(dst, d)
    /\ \A k \in 1..Len(stack) : ~IsPrefix(dst, stack[k].dir)

\* the walker has a step to take: a call to enter, an item to handle, or a call to leave
WalkCanStep ==
    \/ pc = "collect_call"
    \/ Top.todo = {}
    \/ \E item \in NextItems(Top.todo) :
         Skipped(item, skip_dir) \/ IsDir(fsDirs, item) \/ IsFile(fsFiles, item)

\* a natural number that every step of the walker decreases: the directories not yet
\* listed weigh more than all the entries a listing can add
WalkMeasure ==
    LET all == {q \in fsDirs \cup FilePaths(fsFiles) : IsPrefix(src, q)}
        todo[k \in 0..Len(stack)] ==
            IF k = 0 THEN 0 ELSE todo[k - 1] + Cardinality(stack[k].todo)
    IN  Cardinality((fsDirs \cap all) \ listed) * (2 * Cardinality(all) + 3)
        + 2 * todo[Len(stack)] + Len(stack) + (IF pc = "collect_call" THEN 1 ELSE 0)

\* C3: with DST nested in SRC nothing under DST is listed, collected or copied, and
\* the walk ends: it always has a step to take and every step lowers WalkMeasure
C3_NestedDstNeverWalked ==
    /\ [](DstNested => NothingUnderDstTaken)
    /\ []((DstNested /\ Walking) => WalkCanStep)
    /\ [][(DstNested /\ Walking) => WalkMeasure' < WalkMeasure]_vars

\* a re-run has finished with copies of the first run lying under the nested DST
C3_Witness ==
    /\ DstNested /\ Finished /\ run = 2
    /\ FilesUnder(fsStart.files, dst) # {}
    /\ Len(dst) = 3
    /\ OkAttempts # {}

(***************************************************************************)
(* C4: the copy loop makes one attempt per collected file, in list order;  *)
(* an attempt either leaves the file at its target or appends exactly one  *)
(* warning naming the file, and never ends the loop; a run that collected  *)
(* files ends with the tree rendered and one copy warning per failure.     *)
(***************************************************************************)
WalkWarnings == Cardinality(listFailed) + Cardinality(typeFailed)

AttemptsFollowList ==
    /\ Len(attempts) = idx
    /\ Len(attempts) <= Len(files_to_copy)
    /\ \A k \in 1..Len(attempts) : attempts[k].file = files_to_copy[k]
    /\ (pc \in {"render", "done"} /\ files_to_copy # <<>>)
          => Len(attempts) = Len(files_to_copy)
    /\ pc \in {"copy", "render"} => Len(ERRORS) = WalkWarnings + Cardinality(FailedAttempts)
    /\ (Finished /\ files_to_copy # <<>>)
          => /\ TreeLines # {}
             /\ Len(ERRORS) >= WalkWarnings + Cardinality(FailedAttempts)
             /\ Cardinality(OkAttempts) = Len(files_to_copy) - Cardinality(FailedAttempts)

AttemptCopiesOrWarns ==
    idx' = idx + 1 =>
        LET a == attempts'[idx']
        IN  /\ pc' = "copy"
            /\ attempts' = Append(attempts, a)
            /\ stdout' = Append(stdout, print_progress_bar(idx'))
            /\ \/ /\ a.ok
                  /\ IsFile(fsFiles', a.target)
                  /\ ContentOf(fsFiles', a.target) = ContentOf(fsFiles, a.file)
                  /\ ERRORS' = ERRORS
               \/ /\ ~a.ok
                  /\ Len(ERRORS') = Len(ERRORS) + 1
                  /\ SubSeq(ERRORS', 1, Len(ERRORS)) = ERRORS
                  /\ ERRORS'[Len(ERRORS')].path = a.file

\* C4: one attempt per collected file, in list order; each attempt copies the file
\* or records exactly one warning, and the loop goes on to the rendering
C4_OneAttemptPerFile ==
    /\ []AttemptsFollowList
    /\ [][AttemptCopiesOrWarns]_vars

\* one of two collected files could not be copied: one warning, one copy, a tree
C4_Witness ==
    /\ Finished
    /\ Len(files_to_copy) = 2
    /\ ~attempts[1].ok /\ attempts[2].ok
    /\ Len(ERRORS) = 1
    /\ IsFile(fsFiles, attempts[2].target)
    /\ TreeLines # {}

(***************************************************************************)
(* C5: every warning recorded during a run (by the walk, the copy loop or  *)
(* the rendering) has been printed when the run ends.                      *)
(***************************************************************************)
WarningsPrinted == [k \in 1..Cardinality(Printed("warn")) |->
                       LET j == CHOOSE j \in Printed("warn") :
                                    Cardinality({i \in Printed("warn") : i <= j}) = k
                       IN  Msg(stdout[j].x, stdout[j].p)]

\* C5: when the run has ended, the warnings printed are the warnings recorded
C5_EveryWarningPrinted == pc = "done" => WarningsPrinted = ERRORS

(***************************************************************************)
(* C6: in a run that collected a file, nothing is printed as a warning     *)
(* while the copy loop runs; the warnings of the walk and of the copy loop *)
(* are printed as one block, in the order they were recorded, after the    *)
(* last progress update and before the heading and first line of the tree. *)
(***************************************************************************)
C6_WarningsInOneBlockAfterCopy ==
    files_to_copy # <<>> =>
        LET W == Printed("warn")
            P == Printed("progress")
            T == TreeLines \cup Printed("info")
            n == WalkWarnings + Cardinality(FailedAttempts)
        IN  /\ pc = "copy" => W = {} /\ T = {}
            /\ \A w \in W, q \in P : q < w
            /\ \A w \in W, t \in T : w < t
            /\ \A a, b \in W : \A k \in a..b : k \in W
            /\ pc \in {"copy", "render", "done"} => Cardinality(P) = Len(attempts)
            /\ pc \in {"render", "done"} =>
                  /\ Cardinality(W) = n
                  /\ WarningsPrinted = SubSeq(ERRORS, 1, n)

\* a warning of the walk and a warning of the copy loop were printed, in that order
C6_Witness ==
    /\ Finished /\ files_to_copy # <<>>
    /\ WalkWarnings = 1 /\ Cardinality(FailedAttempts) = 1
    /\ Cardinality(Printed("warn")) = 2
    /\ ERRORS[1].path # ERRORS[2].path

(***************************************************************************)
(* C7: when SRC is missing or not a directory, or DST cannot be created,   *)
(* main() prints a fatal error and returns: nothing is listed, collected,  *)
(* copied or rendered; for a missing or non-directory SRC no directory is  *)
(* created either.                                                         *)
(***************************************************************************)
C7_FatalStopsEverything ==
    /\ Fatal =>
          /\ pc = "done"
          /\ Len(stdout) = 1
          /\ listed = {} /\ files_to_copy = <<>> /\ attempts = <<>> /\ ERRORS = <<>>
          /\ fsFiles = fsStart.files
    /\ (pc \notin {"validate"} /\ ~IsDir(fsStart.dirs, src)) =>
          /\ Fatal /\ stdout[1] = Ev("fatal", "src", src, 0)
          /\ fsDirs = fsStart.dirs
    /\ (pc \notin {"validate", "mkdst"} /\ IsDir(fsStart.dirs, src)
          /\ \E q \in Prefixes(dst) : IsFile(fsStart.files, q)) =>
          /\ Fatal /\ stdout[1] = Ev("fatal", "dst", dst, 0)

\* SRC was missing: the run ended with the fatal error and DST was not created
C7_Witness ==
    /\ Fatal /\ stdout[1].x = "src"
    /\ ~Exists(fsDirs, fsFiles, src)
    /\ ~Exists(fsDirs, fsFiles, dst)

(***************************************************************************)
(* C8: when SRC holds no regular file, main() creates DST if it is absent  *)
(* and renders it: no copy attempt, no bucket directory, no progress       *)
(* output.                                                                 *)
(***************************************************************************)
C8_EmptySourceOnlyRenders ==
    (Finished /\ SourceFiles = {}) =>
        /\ IsDir(fsDirs, dst)
        /\ fsDirs = fsStart.dirs \cup Prefixes(dst)
        /\ fsFiles = fsStart.files
        /\ attempts = <<>>
        /\ Printed("progress") = {}
        /\ stdout # <<>> /\ stdout[1] = Ev("dir", "", dst, 0)
        /\ \A k \in 1..Len(stdout) : k \in TreeLines

\* SRC held only empty subdirectories and DST was absent: DST was created and rendered
C8_Witness ==
    /\ Finished /\ SourceFiles = {}
    /\ DirD \in fsStart.dirs /\ DirG \in fsStart.dirs
    /\ ~IsDir(fsStart.dirs, dst)
    /\ IsDir(fsDirs, dst)
    /\ TreeLines # {}

(***************************************************************************)
(* C9 as stated: the walk returns, logs exactly one warning naming each    *)
(* directory it could not list, and collects exactly the regular files     *)
(* reachable from the root through listable directories, outside the       *)
(* subtree it skips.                                                       *)
(***************************************************************************)
WalkOver == pc = "collect_loop" /\ stack = <<>>

Collected == {files_to_copy[k] : k \in 1..Len(files_to_copy)}

\* the directories on the way from the root to path, the root included
Way(path) == {q \in Prefixes(path) : Len(src) <= Len(q) /\ q # path}

\* the regular files under the root that no directory of blocked, and no skipped
\* entry, lies on the way to
Reachable(blocked) ==
    {f \in FilePaths(fsFiles) :
        /\ IsPrefix(src, f) /\ f # src
        /\ \A q \in Way(f) : q \notin blocked /\ (q # src => ~Skipped(q, skip_dir))}

WarningsNaming(path) == {k \in 1..Len(ERRORS) : ERRORS[k].path = path}

\* C9 as stated: the files collected are exactly those reachable through listable
\* directories, with one warning naming each unlistable directory
C9_CollectsAllThroughListable ==
    WalkOver =>
        /\ Collected = Reachable(listFailed)
        /\ \A d \in listFailed : Cardinality(WarningsNaming(d)) = 1

(***************************************************************************)
(* C9 amended: the walk returns, logs exactly one warning naming each      *)
(* directory it could not list and each entry whose is_dir()/is_file()     *)
(* raised, and collects, once each, exactly the regular files reachable    *)
(* from the root through listable directories, outside the subtree it      *)
(* skips, that are not such an entry and not below one.                    *)
(***************************************************************************)
\* C9 amended: the files collected are exactly those reachable through listable
\* directories whose type could be read, with one warning naming each unlistable
\* directory and each entry whose type could not be read
C9_CollectsAllThroughListableAndTyped ==
    WalkOver =>
        /\ Collected = Reachable(listFailed \cup typeFailed) \ typeFailed
        /\ Cardinality(Collected) = Len(files_to_copy)
        /\ \A d \in listFailed \cup typeFailed : Cardinality(WarningsNaming(d)) = 1
        /\ Len(ERRORS) = Cardinality(listFailed) + Cardinality(typeFailed)
        /\ listFailed \subseteq listed /\ listFailed \subseteq fsDirs

\* one directory could not be listed; a file of a sibling directory was collected
C9_Witness ==
    /\ WalkOver
    /\ listFailed = {DirD} /\ typeFailed = {}
    /\ FilesUnder(fsFiles, DirD) # {}
    /\ \E f \in Collected : IsPrefix(DirG, f)

(***************************************************************************)
(* C10: when DST is the same directory as SRC, the walker skips that       *)
(* directory: no file under it is collected and no copy is attempted.      *)
(***************************************************************************)
C10_SameDirNothingCollected ==
    dst = src => files_to_copy = <<>> /\ attempts = <<>>

====
